---- MODULE Spec2Model ----
(***************************************************************************)
(* Griddle temperature monitor (src/app.py): the poll thread               *)
(* (poll_temperature / get_device_status / discover_device_ip), the        *)
(* Socket.IO handlers (handle_connect, handle_disconnect, handle_rescan),  *)
(* the bounded history deque and the device profile resolver.              *)
(*                                                                         *)
(* Numbers that are Python floats in the source are fixed-point integers   *)
(* here: a value before rounding is held in hundredths, a value after      *)
(* round(x, 1) in tenths.  For the two profiles (divisors 1 and 10) every  *)
(* quotient and every Fahrenheit value is an exact multiple of 0.01, so    *)
(* the fixed-point value is the decimal the float stands for.              *)
(***************************************************************************)
EXTENDS Integers, Sequences, FiniteSets, TLC

(***************************************************************************)
(* Bounds of the model.                                                    *)
(***************************************************************************)
MaxTicks == 3         \* poll iterations in Spec
NumRescans == 1       \* rescan commands
NumClients == 2       \* client connections (all of them connect in SpecChannel)
NumWatchers == 1      \* client connections in Spec and SpecHistory
NumAddresses == 1     \* addresses a scan can find the device at
ChannelTicks == 2     \* poll iterations in SpecChannel
HistoryTicks == 901   \* poll iterations in SpecHistory
HistoryQuiet == 900   \* SpecHistory: iterations before a client or a rescan arrives
ReadingTicks == 1     \* poll iterations in SpecReadings
MaxRawT == 300        \* SpecReadings: raw data point 101 is in -BelowZero..MaxRawT
BelowZero == 50
MaxRawH == 20         \* SpecReadings: raw data point 102 is in 0..MaxRawH
MaxNameLen == 4       \* SpecDetect: length of the descriptor's name
MaxCalls == 2         \* SpecDetect: calls of each resolver function
DeadTicks == 4        \* poll iterations in SpecDead

(***************************************************************************)
(* Program constants.                                                      *)
(***************************************************************************)
MAX_HISTORY == 900
ERROR_THRESHOLD == 3

None == <<"None", 0>>
NoQuery == <<"no query", 0>>
Addresses == {<<"ip", i>> : i \in 1..NumAddresses}

POLL == 0
Rescans == 1..NumRescans
Threads == {POLL} \cup Rescans
Clients == 1..NumClients
Watchers == 1..NumWatchers

(***************************************************************************)
(* DEVICE_PROFILES, app.py 26-39 (divisors only; default_version is used   *)
(* by configuration loading alone).                                        *)
(***************************************************************************)
DEVICE_PROFILES ==
    [wt01 |-> [temp_divisor |-> 1, humidity_divisor |-> 10],
     wt02 |-> [temp_divisor |-> 10, humidity_divisor |-> 10]]

VARIABLES
    device_info,          \* registry entry handed to the profile resolver
    detected,             \* what each call of detect_device_type returned for it
    is_probe,             \* what each call of is_temperature_probe returned for it
    DEVICE_TYPE,          \* key of DEVICE_PROFILE, fixed at start-up
    probe,                \* raw <<dp101, dp102>> the device measures
    device_ip,            \* global device_ip
    temperature_history,  \* global deque(maxlen=MAX_HISTORY)
    polling_active,       \* global polling_active
    consecutive_errors,   \* global consecutive_errors
    failures901,          \* connection-error statuses in a row since the last clear
    scan_in_progress,     \* global scan_in_progress
    pc,                   \* position of the poll thread and of each rescan handler
    caller,               \* call site each thread entered discover_device_ip from
    found,                \* ip matched by the thread's running scan
    ret,                  \* value discover_device_ip returned to the thread
    status,               \* poll thread: local status
    reading,              \* poll thread: locals temp_c, temp_f, humidity, timestamp
    ticks,                \* iterations of the poll loop started (the clock)
    cpc,                  \* position of each client's connection
    snap,                 \* list(temperature_history) evaluated for each connect
    first_event,          \* first event delivered to each client
    histories,            \* number of history events delivered to each client
    tick_emits,           \* events the poll thread emitted in this iteration
    rescan_emits,         \* events each rescan handler emitted
    appended,             \* every reading appended so far, in order
    query_address,        \* address the status query of this iteration went to
    errors_before,        \* consecutive_errors when that query was issued
    scan_exit             \* how each thread's last discover_device_ip returned

vars == <<device_info, detected, is_probe, DEVICE_TYPE, probe, device_ip,
          temperature_history, polling_active,
          consecutive_errors, failures901, scan_in_progress, pc, caller, found,
          ret, status,
          reading, ticks, cpc, snap, first_event, histories, tick_emits, rescan_emits,
          appended, query_address, errors_before, scan_exit>>

resolver == <<device_info, detected, is_probe>>
config == <<resolver, DEVICE_TYPE, probe, polling_active>>
delivered == <<first_event, histories>>
clientVars == <<cpc, snap, delivered>>
pollLocals == <<status, reading>>
discLocals == <<caller, found, ret>>
queried == <<query_address, errors_before>>

(***************************************************************************)
(* Python dicts are functions with a finite domain.                        *)
(***************************************************************************)
Has(d, k) == k \in DOMAIN d
Get(d, k, default) == IF k \in DOMAIN d THEN d[k] ELSE default

(***************************************************************************)
(* Data-point values: a number or a string, tagged so that both can sit    *)
(* in one status map.                                                      *)
(***************************************************************************)
Num(n) == <<"num", n>>
Str == <<"str", 0>>
IsNum(v) == v[1] = "num"

(***************************************************************************)
(* What device.status() can give for the raw pair p: a status map with     *)
(* data points, an error status (code 901: connection failure, another     *)
(* code), or an exception.                                                 *)
(***************************************************************************)
DpsFull(p) == [dps |-> ("101" :> Num(p[1])) @@ ("102" :> Num(p[2]))]
DpsNo101(p) == [dps |-> ("102" :> Num(p[2]))]
DpsStr101(p) == [dps |-> ("101" :> Str) @@ ("102" :> Num(p[2]))]
Err901 == [Error |-> "Network Error: Unable to Connect", Err |-> "901"]
Err905 == [Error |-> "Network Error: Device Unreachable", Err |-> "905"]
Raised == [exception |-> "socket"]
AllOutcomes(p) == {DpsFull(p), DpsNo101(p), DpsStr101(p), Err901, Err905, Raised}
GoodOutcomes(p) == {DpsFull(p)}

(***************************************************************************)
(* round(x, 1): x in hundredths, the result in tenths, to nearest and a    *)
(* tie to even.  (No tie arises for the two profiles: quotients are exact  *)
(* tenths and Fahrenheit values are multiples of 0.02.)                    *)
(***************************************************************************)
Round1(x) ==
    LET q == x \div 10
        r == x % 10
    IN  IF r < 5 THEN q
        ELSE IF r > 5 THEN q + 1
        ELSE IF q % 2 = 0 THEN q ELSE q + 1

(* raw / divisor, in hundredths (exact for the divisors 1 and 10) *)
TrueDiv(raw, divisor) == (raw * 100) \div divisor

(* 9/5 taken as an integer quotient *)
CelsiusToFahrenheitIntegerRatio(celsius) == (celsius * (9 \div 5)) + 3200

(* celsius_to_fahrenheit, app.py 258-260: hundredths in, hundredths out *)
celsius_to_fahrenheit(celsius) == ((celsius * 9) \div 5) + 3200

DEVICE_PROFILE == DEVICE_PROFILES[DEVICE_TYPE]

(* a deque that lets one entry too many in before it evicts *)
DequeAppendLate(h, x) ==
    IF Len(h) > MAX_HISTORY THEN Append(Tail(h), x) ELSE Append(h, x)

(* a full deque that drops its right end, the newest entry *)
DequeAppendDropsNewest(h, x) ==
    IF Len(h) >= MAX_HISTORY THEN Append(SubSeq(h, 1, Len(h) - 1), x)
    ELSE Append(h, x)

(***************************************************************************)
(* deque(maxlen=MAX_HISTORY).append: a full deque drops its left end.      *)
(***************************************************************************)
DequeAppend(h, x) ==
    IF Len(h) >= MAX_HISTORY THEN Append(Tail(h), x) ELSE Append(h, x)

(***************************************************************************)
(* socketio.emit(event, data) with no `to`: the event goes to every client *)
(* in the namespace.  A client is in the namespace from the moment the     *)
(* server registers its connection, which is before handle_connect runs.   *)
(***************************************************************************)
InNamespace(c) == cpc[c] \in {"joined", "snapshot", "connected"}
Deliver(event) ==
    /\ first_event' = [c \in Clients |->
           IF InNamespace(c) /\ first_event[c] = "none" THEN event
           ELSE first_event[c]]
    /\ histories' = [c \in Clients |->
           IF InNamespace(c) /\ event = "history" THEN histories[c] + 1
           ELSE histories[c]]

Goto(t, label) == [pc EXCEPT ![t] = label]

(***************************************************************************)
(* State after the module is loaded and __main__ has run its start-up      *)
(* discover_device_ip() (app.py 210-228, 403): the address is set or not.  *)
(***************************************************************************)
InitCommon ==
    /\ polling_active = TRUE
    /\ temperature_history = <<>>
    /\ consecutive_errors = 0
    /\ failures901 = 0
    /\ scan_in_progress = FALSE
    /\ pc = [t \in Threads |-> IF t = POLL THEN "loop" ELSE "idle"]
    /\ caller = [t \in Threads |-> "none"]
    /\ found = [t \in Threads |-> None]
    /\ ret = [t \in Threads |-> None]
    /\ status = [unset |-> TRUE]
    /\ reading = [unset |-> TRUE]
    /\ ticks = 0
    /\ cpc = [c \in Clients |-> "new"]
    /\ snap = [c \in Clients |-> <<>>]
    /\ first_event = [c \in Clients |-> "none"]
    /\ histories = [c \in Clients |-> 0]
    /\ tick_emits = <<>>
    /\ rescan_emits = [r \in Rescans |-> <<>>]
    /\ appended = <<>>
    /\ query_address = NoQuery
    /\ errors_before = 0
    /\ scan_exit = [t \in Threads |-> "none"]

(* credentials from the environment, 136-148: no registry entry is read *)
NoDescriptor == [k \in {} |-> <<>>]

Init ==
    /\ device_info = NoDescriptor
    /\ detected = <<>>
    /\ is_probe = <<>>
    /\ DEVICE_TYPE \in DOMAIN DEVICE_PROFILES
    /\ probe = <<254, 455>>
    /\ device_ip \in Addresses \cup {None}
    /\ InitCommon

(***************************************************************************)
(* discover_device_ip, app.py 231-255, run by thread t (the poll thread or *)
(* a rescan handler).  Return(t, v) hands v back to the call site.         *)
(***************************************************************************)
ReturnLabel(site) ==
    CASE site = "gds272" -> "gds_after_discover"
      [] site = "gds293" -> "poll_status"
      [] site = "rescan382" -> "rescan_emit"

Call(t, site) ==
    /\ pc' = Goto(t, "disc_check")
    /\ caller' = [caller EXCEPT ![t] = site]

Return(t, v) ==
    /\ pc' = Goto(t, ReturnLabel(caller[t]))
    /\ ret' = [ret EXCEPT ![t] = v]
    /\ caller' = [caller EXCEPT ![t] = "none"]
    /\ found' = [found EXCEPT ![t] = None]

(* no in-flight guard *)
DiscCheckNoGuard(t) ==
    /\ pc[t] = "disc_check"
    /\ pc' = Goto(t, "disc_set")
    /\ UNCHANGED <<config, device_ip, temperature_history, consecutive_errors,
                   failures901, scan_in_progress, discLocals, pollLocals, ticks,
                   clientVars, tick_emits, rescan_emits, appended, queried, scan_exit>>

(* 235: the in-flight guard *)
DiscCheck(t) ==
    /\ pc[t] = "disc_check"
    /\ pc' = Goto(t, IF scan_in_progress THEN "disc_busy" ELSE "disc_set")
    /\ UNCHANGED <<config, device_ip, temperature_history, consecutive_errors,
                   failures901, scan_in_progress, discLocals, pollLocals, ticks,
                   clientVars, tick_emits, rescan_emits, appended, queried, scan_exit>>

(* 236: return device_ip, no scan started *)
DiscBusyReturn(t) ==
    /\ pc[t] = "disc_busy"
    /\ Return(t, device_ip)
    /\ scan_exit' = [scan_exit EXCEPT ![t] = "busy"]
    /\ UNCHANGED <<config, device_ip, temperature_history, consecutive_errors,
                   failures901, scan_in_progress, pollLocals, ticks, clientVars,
                   tick_emits, rescan_emits, appended, queried>>

(* 238 *)
DiscSet(t) ==
    /\ pc[t] = "disc_set"
    /\ scan_in_progress' = TRUE
    /\ pc' = Goto(t, "disc_scan")
    /\ UNCHANGED <<config, failures901, device_ip, temperature_history,
                   consecutive_errors,
                   discLocals, pollLocals, ticks, clientVars, tick_emits,
                   rescan_emits, appended, queried, scan_exit>>

(* 242-246: the scan finds the device at ip; device_ip = ip *)
DiscScanFound(t) ==
    /\ pc[t] = "disc_scan"
    /\ \E ip \in Addresses :
          /\ device_ip' = ip
          /\ found' = [found EXCEPT ![t] = ip]
    /\ pc' = Goto(t, "disc_found")
    /\ UNCHANGED <<config, failures901, temperature_history,
                   consecutive_errors,
                   scan_in_progress, caller, ret, pollLocals, ticks, clientVars,
                   tick_emits, rescan_emits, appended, queried, scan_exit>>

(* 247-248 *)
DiscFoundReturn(t) ==
    /\ pc[t] = "disc_found"
    /\ scan_in_progress' = FALSE
    /\ Return(t, found[t])
    /\ scan_exit' = [scan_exit EXCEPT ![t] = "found"]
    /\ UNCHANGED <<config, failures901, device_ip, temperature_history,
                   consecutive_errors,
                   pollLocals, ticks, clientVars, tick_emits,
                   rescan_emits, appended, queried>>

(* 242-243, 249-251: the scan ends without the device *)
DiscScanNotFound(t) ==
    /\ pc[t] = "disc_scan"
    /\ scan_in_progress' = FALSE
    /\ Return(t, None)
    /\ scan_exit' = [scan_exit EXCEPT ![t] = "not found"]
    /\ UNCHANGED <<config, failures901, device_ip, temperature_history,
                   consecutive_errors,
                   pollLocals, ticks, clientVars, tick_emits,
                   rescan_emits, appended, queried>>

(* an exception path that returns without clearing the flag *)
DiscScanExceptionKeepsFlag(t) ==
    /\ pc[t] = "disc_scan"
    /\ Return(t, None)
    /\ scan_exit' = [scan_exit EXCEPT ![t] = "exception"]
    /\ UNCHANGED <<config, failures901, device_ip, temperature_history,
                   consecutive_errors, scan_in_progress,
                   pollLocals, ticks, clientVars, tick_emits,
                   rescan_emits, appended, queried>>

(* 242, 252-255: the scan raises *)
DiscScanException(t) ==
    /\ pc[t] = "disc_scan"
    /\ scan_in_progress' = FALSE
    /\ Return(t, None)
    /\ scan_exit' = [scan_exit EXCEPT ![t] = "exception"]
    /\ UNCHANGED <<config, failures901, device_ip, temperature_history,
                   consecutive_errors,
                   pollLocals, ticks, clientVars, tick_emits,
                   rescan_emits, appended, queried>>

(***************************************************************************)
(* poll_temperature, app.py 307-354, and get_device_status, 263-304.       *)
(***************************************************************************)
(* 311-312: a new iteration; maxTicks caps the run *)
PollLoop(maxTicks) ==
    /\ pc[POLL] = "loop"
    /\ polling_active
    /\ ticks < maxTicks
    /\ ticks' = ticks + 1
    /\ tick_emits' = <<>>
    /\ pc' = Goto(POLL, "gds_scan_check")
    /\ UNCHANGED <<config, failures901, device_ip, temperature_history,
                   consecutive_errors,
                   scan_in_progress, discLocals, pollLocals, clientVars,
                   rescan_emits, appended, queried, scan_exit>>

(* get_device_status without the scanning test *)
GdsScanCheckIgnoresFlag ==
    /\ pc[POLL] = "gds_scan_check"
    /\ IF FALSE
       THEN /\ status' = [scanning |-> TRUE]
            /\ pc' = Goto(POLL, "poll_status")
       ELSE /\ status' = status
            /\ pc' = Goto(POLL, "gds_ip_check")
    /\ UNCHANGED <<config, failures901, device_ip, temperature_history,
                   consecutive_errors,
                   scan_in_progress, discLocals, reading, ticks, clientVars,
                   tick_emits, rescan_emits, appended, queried, scan_exit>>

(* 268-269 *)
GdsScanCheck ==
    /\ pc[POLL] = "gds_scan_check"
    /\ IF scan_in_progress
       THEN /\ status' = [scanning |-> TRUE]
            /\ pc' = Goto(POLL, "poll_status")
       ELSE /\ status' = status
            /\ pc' = Goto(POLL, "gds_ip_check")
    /\ UNCHANGED <<config, failures901, device_ip, temperature_history,
                   consecutive_errors,
                   scan_in_progress, discLocals, reading, ticks, clientVars,
                   tick_emits, rescan_emits, appended, queried, scan_exit>>

(* 271-272 *)
GdsIpCheck ==
    /\ pc[POLL] = "gds_ip_check"
    /\ IF device_ip = None
       THEN Call(POLL, "gds272")
       ELSE pc' = Goto(POLL, "query") /\ caller' = caller
    /\ UNCHANGED <<config, failures901, device_ip, temperature_history,
                   consecutive_errors,
                   scan_in_progress, found, ret, pollLocals, ticks, clientVars,
                   tick_emits, rescan_emits, appended, queried, scan_exit>>

(* no second test of device_ip after discover_device_ip *)
GdsAfterDiscoverNoCheck ==
    /\ pc[POLL] = "gds_after_discover"
    /\ IF FALSE
       THEN /\ status' = [Error |-> "Device not found on network"]
            /\ pc' = Goto(POLL, "poll_status")
       ELSE /\ status' = status
            /\ pc' = Goto(POLL, "query")
    /\ UNCHANGED <<config, failures901, device_ip, temperature_history,
                   consecutive_errors,
                   scan_in_progress, discLocals, reading, ticks, clientVars,
                   tick_emits, rescan_emits, appended, queried, scan_exit>>

(* 273-274 *)
GdsAfterDiscover ==
    /\ pc[POLL] = "gds_after_discover"
    /\ IF device_ip = None
       THEN /\ status' = [Error |-> "Device not found on network"]
            /\ pc' = Goto(POLL, "poll_status")
       ELSE /\ status' = status
            /\ pc' = Goto(POLL, "query")
    /\ UNCHANGED <<config, failures901, device_ip, temperature_history,
                   consecutive_errors,
                   scan_in_progress, discLocals, reading, ticks, clientVars,
                   tick_emits, rescan_emits, appended, queried, scan_exit>>

(* 287: 'Error' in status and '901' in str(status.get('Err', '')) *)
IsConnectionError(st) == Has(st, "Error") /\ Get(st, "Err", "") = "901"

(* a status without connection error that leaves the counter as it was *)
QueryKeepsCount(outcomes) ==
    /\ pc[POLL] = "query"
    /\ query_address' = device_ip
    /\ errors_before' = consecutive_errors
    /\ \E o \in outcomes :
          IF Has(o, "exception")
          THEN /\ status' = status
               /\ consecutive_errors' = consecutive_errors
               /\ failures901' = 0
               /\ pc' = Goto(POLL, "exc_inc")
          ELSE /\ status' = o
               /\ IF IsConnectionError(o)
                  THEN /\ consecutive_errors' = consecutive_errors
                       /\ failures901' = failures901 + 1
                       /\ pc' = Goto(POLL, "gds_901_inc")
                  ELSE /\ consecutive_errors' = consecutive_errors
                       /\ failures901' = 0
                       /\ pc' = Goto(POLL, "poll_status")
    /\ UNCHANGED <<config, device_ip, temperature_history, scan_in_progress,
                   discLocals, reading, ticks, clientVars, tick_emits,
                   rescan_emits, appended, scan_exit>>

(* 276-287, 294-298: the session is opened to device_ip as it is now and   *)
(* the status is read; outcomes is what the device can answer.  A status   *)
(* that is no connection error resets the counter.                         *)
Query(outcomes) ==
    /\ pc[POLL] = "query"
    /\ query_address' = device_ip
    /\ errors_before' = consecutive_errors
    /\ \E o \in outcomes :
          IF Has(o, "exception")
          THEN /\ status' = status
               /\ consecutive_errors' = consecutive_errors
               /\ failures901' = 0
               /\ pc' = Goto(POLL, "exc_inc")
          ELSE /\ status' = o
               /\ IF IsConnectionError(o)
                  THEN /\ consecutive_errors' = consecutive_errors
                       /\ failures901' = failures901 + 1
                       /\ pc' = Goto(POLL, "gds_901_inc")
                  ELSE /\ consecutive_errors' = 0
                       /\ failures901' = 0
                       /\ pc' = Goto(POLL, "poll_status")
    /\ UNCHANGED <<config, device_ip, temperature_history, scan_in_progress,
                   discLocals, reading, ticks, clientVars, tick_emits,
                   rescan_emits, appended, scan_exit>>

(* 288 *)
Gds901Inc ==
    /\ pc[POLL] = "gds_901_inc"
    /\ consecutive_errors' = consecutive_errors + 1
    /\ pc' = Goto(POLL, "gds_901_threshold")
    /\ UNCHANGED <<config, failures901, device_ip, temperature_history, scan_in_progress,
                   discLocals, pollLocals, ticks, clientVars, tick_emits,
                   rescan_emits, appended, queried, scan_exit>>

(* the threshold compared with > *)
Gds901ThresholdLate ==
    /\ pc[POLL] = "gds_901_threshold"
    /\ IF consecutive_errors > ERROR_THRESHOLD
       THEN /\ device_ip' = None
            /\ pc' = Goto(POLL, "gds_901_reset")
       ELSE /\ device_ip' = device_ip
            /\ pc' = Goto(POLL, "poll_status")
    /\ UNCHANGED <<config, failures901, temperature_history,
                   consecutive_errors, scan_in_progress, discLocals, pollLocals,
                   ticks, clientVars, tick_emits, rescan_emits, appended,
                   queried, scan_exit>>

(* 289-291, 297 *)
Gds901Threshold ==
    /\ pc[POLL] = "gds_901_threshold"
    /\ IF consecutive_errors >= ERROR_THRESHOLD
       THEN /\ device_ip' = None
            /\ pc' = Goto(POLL, "gds_901_reset")
       ELSE /\ device_ip' = device_ip
            /\ pc' = Goto(POLL, "poll_status")
    /\ UNCHANGED <<config, failures901, temperature_history, consecutive_errors,
                   scan_in_progress, discLocals, pollLocals, ticks, clientVars,
                   tick_emits, rescan_emits, appended, queried, scan_exit>>

(* the threshold branch without consecutive_errors = 0 *)
Gds901ResetKeepsCount ==
    /\ pc[POLL] = "gds_901_reset"
    /\ consecutive_errors' = consecutive_errors
    /\ failures901' = 0
    /\ Call(POLL, "gds293")
    /\ UNCHANGED <<config, device_ip, temperature_history, scan_in_progress,
                   found, ret, pollLocals, ticks, clientVars, tick_emits,
                   rescan_emits, appended, queried, scan_exit>>

(* 292-293 *)
Gds901Reset ==
    /\ pc[POLL] = "gds_901_reset"
    /\ consecutive_errors' = 0
    /\ failures901' = 0
    /\ Call(POLL, "gds293")
    /\ UNCHANGED <<config, device_ip, temperature_history, scan_in_progress,
                   found, ret, pollLocals, ticks, clientVars, tick_emits,
                   rescan_emits, appended, queried, scan_exit>>

(* 298-299 *)
ExcInc ==
    /\ pc[POLL] = "exc_inc"
    /\ consecutive_errors' = consecutive_errors + 1
    /\ pc' = Goto(POLL, "exc_threshold")
    /\ UNCHANGED <<config, failures901, device_ip, temperature_history, scan_in_progress,
                   discLocals, pollLocals, ticks, clientVars, tick_emits,
                   rescan_emits, appended, queried, scan_exit>>

(* the except block clearing the address one failure early *)
ExcThresholdEarly ==
    /\ pc[POLL] = "exc_threshold"
    /\ IF consecutive_errors >= ERROR_THRESHOLD - 1
       THEN /\ device_ip' = None
            /\ status' = status
            /\ pc' = Goto(POLL, "exc_reset")
       ELSE /\ device_ip' = device_ip
            /\ status' = [Error |-> "socket"]
            /\ pc' = Goto(POLL, "poll_status")
    /\ UNCHANGED <<config, failures901, temperature_history,
                   consecutive_errors,
                   scan_in_progress, discLocals, reading, ticks, clientVars,
                   tick_emits, rescan_emits, appended, queried, scan_exit>>

(* 300-302, 304 *)
ExcThreshold ==
    /\ pc[POLL] = "exc_threshold"
    /\ IF consecutive_errors >= ERROR_THRESHOLD
       THEN /\ device_ip' = None
            /\ status' = status
            /\ pc' = Goto(POLL, "exc_reset")
       ELSE /\ device_ip' = device_ip
            /\ status' = [Error |-> "socket"]
            /\ pc' = Goto(POLL, "poll_status")
    /\ UNCHANGED <<config, failures901, temperature_history,
                   consecutive_errors,
                   scan_in_progress, discLocals, reading, ticks, clientVars,
                   tick_emits, rescan_emits, appended, queried, scan_exit>>

(* 303-304 *)
ExcReset ==
    /\ pc[POLL] = "exc_reset"
    /\ consecutive_errors' = 0
    /\ status' = [Error |-> "socket"]
    /\ pc' = Goto(POLL, "poll_status")
    /\ UNCHANGED <<config, failures901, device_ip, temperature_history, scan_in_progress,
                   discLocals, reading, ticks, clientVars, tick_emits,
                   rescan_emits, appended, queried, scan_exit>>

(***************************************************************************)
(* The iteration ends in time.sleep(2), 320 and 354: its locals are dead.  *)
(***************************************************************************)
EndIteration ==
    /\ pc' = Goto(POLL, "loop")
    /\ status' = [unset |-> TRUE]
    /\ reading' = [unset |-> TRUE]
    /\ ret' = [ret EXCEPT ![POLL] = None]
    /\ query_address' = NoQuery
    /\ errors_before' = 0
    /\ scan_exit' = [scan_exit EXCEPT ![POLL] = "none"]

(* 315-321: the scanning status, then the sleep *)
EmitScanning ==
    /\ pc[POLL] = "poll_status"
    /\ Get(status, "scanning", FALSE)
    /\ Deliver("temperature_update")
    /\ tick_emits' = Append(tick_emits,
           [event |-> "temperature_update",
            data |-> [scanning |-> TRUE, timestamp |-> ticks]])
    /\ EndIteration
    /\ UNCHANGED <<config, failures901, device_ip, temperature_history,
                   consecutive_errors,
                   scan_in_progress, caller, found, ticks, cpc, snap,
                   rescan_emits, appended>>

(* 323-330: the values scaled by the profile; a data point that is not a   *)
(* number makes the division raise TypeError, which nothing catches        *)
ComputeReading ==
    /\ pc[POLL] = "poll_status"
    /\ ~Get(status, "scanning", FALSE)
    /\ Has(status, "dps")
    /\ LET dps == status["dps"]
           v101 == Get(dps, "101", Num(0))
           v102 == Get(dps, "102", Num(0))
       IN  IF IsNum(v101) /\ IsNum(v102)
           THEN LET temp_c == TrueDiv(v101[2], DEVICE_PROFILE.temp_divisor)
                IN  /\ reading' =
                         [temp_c |-> temp_c,
                          temp_f |-> celsius_to_fahrenheit(temp_c),
                          humidity |-> TrueDiv(v102[2], DEVICE_PROFILE.humidity_divisor),
                          timestamp |-> ticks]
                    /\ pc' = Goto(POLL, "append")
           ELSE /\ reading' = reading
                /\ pc' = Goto(POLL, "crashed")
    /\ UNCHANGED <<config, failures901, device_ip, temperature_history,
                   consecutive_errors,
                   scan_in_progress, discLocals, status, ticks, clientVars,
                   tick_emits, rescan_emits, appended, queried, scan_exit>>

(* a history entry holding the values before round(x, 1) *)
HistoryEntryUnrounded(r) ==
    [time |-> r.timestamp,
     temp_f |-> r.temp_f,
     temp_c |-> r.temp_c,
     humidity |-> r.humidity]

(* 333-338 *)
HistoryEntry(r) ==
    [time |-> r.timestamp,
     temp_f |-> Round1(r.temp_f),
     temp_c |-> Round1(r.temp_c),
     humidity |-> Round1(r.humidity)]

AppendReading ==
    /\ pc[POLL] = "append"
    /\ temperature_history' = DequeAppend(temperature_history, HistoryEntry(reading))
    /\ appended' = Append(appended, HistoryEntry(reading))
    /\ pc' = Goto(POLL, "emit_reading")
    /\ UNCHANGED <<config, failures901, device_ip, consecutive_errors, scan_in_progress,
                   discLocals, pollLocals, ticks, clientVars, tick_emits,
                   rescan_emits, queried, scan_exit>>

(* 341-346, 354 *)
UpdateEvent(r) ==
    [temp_f |-> Round1(r.temp_f),
     temp_c |-> Round1(r.temp_c),
     humidity |-> Round1(r.humidity),
     timestamp |-> r.timestamp]

EmitReading ==
    /\ pc[POLL] = "emit_reading"
    /\ Deliver("temperature_update")
    /\ tick_emits' = Append(tick_emits,
           [event |-> "temperature_update", data |-> UpdateEvent(reading)])
    /\ EndIteration
    /\ UNCHANGED <<config, failures901, device_ip, temperature_history,
                   consecutive_errors,
                   scan_in_progress, caller, found, ticks, cpc, snap,
                   rescan_emits, appended>>

(* 347-354 *)
EmitError ==
    /\ pc[POLL] = "poll_status"
    /\ ~Get(status, "scanning", FALSE)
    /\ ~Has(status, "dps")
    /\ Deliver("temperature_update")
    /\ tick_emits' = Append(tick_emits,
           [event |-> "temperature_update",
            data |-> [error |-> Get(status, "Error", "Unknown error"),
                      timestamp |-> ticks]])
    /\ EndIteration
    /\ UNCHANGED <<config, failures901, device_ip, temperature_history,
                   consecutive_errors,
                   scan_in_progress, caller, found, ticks, cpc, snap,
                   rescan_emits, appended>>

(***************************************************************************)
(* handle_rescan, app.py 376-386, run by handler r for a rescan command    *)
(* of a connected client.                                                  *)
(***************************************************************************)
(* 379-382 *)
RescanClear(r) ==
    /\ pc[r] = "idle"
    /\ \E c \in Clients : cpc[c] = "connected"
    /\ device_ip' = None
    /\ Call(r, "rescan382")
    /\ UNCHANGED <<config, failures901, temperature_history,
                   consecutive_errors,
                   scan_in_progress, found, ret, pollLocals, ticks, clientVars,
                   tick_emits, rescan_emits, appended, queried, scan_exit>>

(* a handler that answers only a successful rescan *)
RescanEmitOnlyOnSuccess(r) ==
    /\ pc[r] = "rescan_emit"
    /\ IF ret[r] # None
       THEN /\ Deliver("rescan_result")
            /\ rescan_emits' = [rescan_emits EXCEPT ![r] = Append(@,
                   [event |-> "rescan_result",
                    data |-> [success |-> TRUE, ip |-> ret[r]]])]
       ELSE UNCHANGED <<delivered, rescan_emits>>
    /\ pc' = Goto(r, "done")
    /\ UNCHANGED <<config, failures901, device_ip, temperature_history,
                   consecutive_errors, scan_in_progress, discLocals, pollLocals,
                   ticks, cpc, snap, tick_emits, appended, queried, scan_exit>>

(* 383-386 *)
RescanEmit(r) ==
    /\ pc[r] = "rescan_emit"
    /\ Deliver("rescan_result")
    /\ rescan_emits' = [rescan_emits EXCEPT ![r] = Append(@,
           IF ret[r] # None
           THEN [event |-> "rescan_result", data |-> [success |-> TRUE, ip |-> ret[r]]]
           ELSE [event |-> "rescan_result",
                 data |-> [success |-> FALSE, error |-> "Device not found"]])]
    /\ pc' = Goto(r, "done")
    /\ UNCHANGED <<config, failures901, device_ip, temperature_history,
                   consecutive_errors,
                   scan_in_progress, discLocals, pollLocals, ticks, cpc, snap,
                   tick_emits, appended, queried, scan_exit>>

(***************************************************************************)
(* A client connection: the server registers the client in the namespace,  *)
(* then runs handle_connect, app.py 363-367, which evaluates               *)
(* list(temperature_history) and then emits it; handle_disconnect,         *)
(* 370-373, does nothing and the server drops the client.                  *)
(***************************************************************************)
Connect(c) ==
    /\ cpc[c] = "new"
    /\ cpc' = [cpc EXCEPT ![c] = "joined"]
    /\ UNCHANGED <<config, failures901, device_ip, temperature_history,
                   consecutive_errors,
                   scan_in_progress, pc, discLocals, pollLocals, ticks, snap,
                   delivered, tick_emits, rescan_emits, appended, queried, scan_exit>>

(* 367: the argument list(temperature_history) *)
HandleConnectSnapshot(c) ==
    /\ cpc[c] = "joined"
    /\ snap' = [snap EXCEPT ![c] = temperature_history]
    /\ cpc' = [cpc EXCEPT ![c] = "snapshot"]
    /\ UNCHANGED <<config, failures901, device_ip, temperature_history,
                   consecutive_errors,
                   scan_in_progress, pc, discLocals, pollLocals, ticks,
                   delivered, tick_emits, rescan_emits, appended, queried, scan_exit>>

(* 367: socketio.emit('history', ...) *)
HandleConnectEmit(c) ==
    /\ cpc[c] = "snapshot"
    /\ Deliver("history")
    /\ cpc' = [cpc EXCEPT ![c] = "connected"]
    /\ snap' = [snap EXCEPT ![c] = <<>>]
    /\ UNCHANGED <<config, failures901, device_ip, temperature_history,
                   consecutive_errors,
                   scan_in_progress, pc, discLocals, pollLocals, ticks,
                   tick_emits, rescan_emits, appended, queried, scan_exit>>

(* 370-373 *)
HandleDisconnect(c) ==
    /\ cpc[c] = "connected"
    /\ cpc' = [cpc EXCEPT ![c] = "gone"]
    /\ UNCHANGED <<config, failures901, device_ip, temperature_history,
                   consecutive_errors,
                   scan_in_progress, pc, discLocals, pollLocals, ticks, snap,
                   delivered, tick_emits, rescan_emits, appended, queried, scan_exit>>

(***************************************************************************)
(* The whole program: every interleaving of the poll thread, the rescan    *)
(* handlers and the client connections.                                    *)
(***************************************************************************)
Next ==
    \/ PollLoop(MaxTicks)
    \/ GdsScanCheck
    \/ GdsIpCheck
    \/ GdsAfterDiscover
    \/ Query(AllOutcomes(probe))
    \/ Gds901Inc
    \/ Gds901Threshold
    \/ Gds901Reset
    \/ ExcInc
    \/ ExcThreshold
    \/ ExcReset
    \/ EmitScanning
    \/ ComputeReading
    \/ AppendReading
    \/ EmitReading
    \/ EmitError
    \/ \E t \in Threads : DiscCheck(t)
    \/ \E t \in Threads : DiscBusyReturn(t)
    \/ \E t \in Threads : DiscSet(t)
    \/ \E t \in Threads : DiscScanFound(t)
    \/ \E t \in Threads : DiscFoundReturn(t)
    \/ \E t \in Threads : DiscScanNotFound(t)
    \/ \E t \in Threads : DiscScanException(t)
    \/ \E r \in Rescans : RescanClear(r)
    \/ \E r \in Rescans : RescanEmit(r)
    \/ \E c \in Watchers : Connect(c)
    \/ \E c \in Clients : HandleConnectSnapshot(c)
    \/ \E c \in Clients : HandleConnectEmit(c)
    \/ \E c \in Clients : HandleDisconnect(c)

Spec == Init /\ [][Next]_vars

(***************************************************************************)
(* The broadcast channel with several clients: the poll thread on a device *)
(* found at start-up, and every client connecting and disconnecting.       *)
(***************************************************************************)
InitChannel ==
    /\ device_info = NoDescriptor
    /\ detected = <<>>
    /\ is_probe = <<>>
    /\ DEVICE_TYPE \in DOMAIN DEVICE_PROFILES
    /\ probe = <<254, 455>>
    /\ device_ip \in Addresses
    /\ InitCommon

NextChannel ==
    \/ PollLoop(ChannelTicks)
    \/ GdsScanCheck
    \/ GdsIpCheck
    \/ Query({DpsFull(probe), Err905})
    \/ ComputeReading
    \/ AppendReading
    \/ EmitReading
    \/ EmitError
    \/ \E c \in Clients : Connect(c)
    \/ \E c \in Clients : HandleConnectSnapshot(c)
    \/ \E c \in Clients : HandleConnectEmit(c)
    \/ \E c \in Clients : HandleDisconnect(c)

SpecChannel == InitChannel /\ [][NextChannel]_vars

(***************************************************************************)
(* A long run that fills the history: the device answers every query for   *)
(* HistoryQuiet iterations with nobody connected, then a client connects   *)
(* and sends a rescan while the poll loop goes on.                         *)
(***************************************************************************)
InitHistory ==
    /\ device_info = NoDescriptor
    /\ detected = <<>>
    /\ is_probe = <<>>
    /\ DEVICE_TYPE = "wt02"
    /\ probe = <<254, 455>>
    /\ device_ip \in Addresses
    /\ InitCommon

NextHistory ==
    \/ PollLoop(HistoryTicks)
    \/ GdsScanCheck
    \/ GdsIpCheck
    \/ GdsAfterDiscover
    \/ Query(GoodOutcomes(probe))
    \/ ComputeReading
    \/ AppendReading
    \/ EmitReading
    \/ EmitScanning
    \/ EmitError
    \/ \E t \in Threads : DiscCheck(t)
    \/ \E t \in Threads : DiscBusyReturn(t)
    \/ \E t \in Threads : DiscSet(t)
    \/ \E t \in Threads : DiscScanFound(t)
    \/ \E t \in Threads : DiscFoundReturn(t)
    \/ \E t \in Threads : DiscScanNotFound(t)
    \/ \E r \in Rescans : RescanClear(r)
    \/ \E r \in Rescans : RescanEmit(r)
    \/ \E c \in Watchers : ticks >= HistoryQuiet /\ Connect(c)
    \/ \E c \in Clients : HandleConnectSnapshot(c)
    \/ \E c \in Clients : HandleConnectEmit(c)

SpecHistory == InitHistory /\ [][NextHistory]_vars

(***************************************************************************)
(* The conversion of raw data points to a reading, for every raw pair in   *)
(* range and both profiles: one device, found at start-up, that answers.   *)
(***************************************************************************)
InitReadings ==
    /\ device_info = NoDescriptor
    /\ detected = <<>>
    /\ is_probe = <<>>
    /\ DEVICE_TYPE \in DOMAIN DEVICE_PROFILES
    /\ probe \in ((0 - BelowZero)..MaxRawT) \X (0..MaxRawH)
    /\ device_ip \in Addresses
    /\ InitCommon

NextReadings ==
    \/ PollLoop(ReadingTicks)
    \/ GdsScanCheck
    \/ GdsIpCheck
    \/ Query(GoodOutcomes(probe))
    \/ ComputeReading
    \/ AppendReading
    \/ EmitReading

SpecReadings == InitReadings /\ [][NextReadings]_vars

(***************************************************************************)
(* A device that has left its cached address: every status query fails, by *)
(* an error status or an exception, every scan ends without the device,    *)
(* and no client sends a rescan.                                           *)
(***************************************************************************)
FailedOutcomes == {Err901, Err905, Raised}

InitDead ==
    /\ device_info = NoDescriptor
    /\ detected = <<>>
    /\ is_probe = <<>>
    /\ DEVICE_TYPE \in DOMAIN DEVICE_PROFILES
    /\ probe = <<254, 455>>
    /\ device_ip \in Addresses
    /\ InitCommon

NextDead ==
    \/ PollLoop(DeadTicks)
    \/ GdsScanCheck
    \/ GdsIpCheck
    \/ GdsAfterDiscover
    \/ Query(FailedOutcomes)
    \/ Gds901Inc
    \/ Gds901Threshold
    \/ Gds901Reset
    \/ ExcInc
    \/ ExcThreshold
    \/ ExcReset
    \/ EmitError
    \/ DiscCheck(POLL)
    \/ DiscSet(POLL)
    \/ DiscScanNotFound(POLL)
    \/ DiscScanException(POLL)

SpecDead == InitDead /\ [][NextDead]_vars

(***************************************************************************)
(* The device profile resolver, app.py 42-70.  A Python string is a        *)
(* sequence of one-character strings.                                      *)
(***************************************************************************)
Upper(ch) ==
    CASE ch = "w" -> "W"
      [] ch = "t" -> "T"
      [] OTHER -> ch

(* no .upper() *)
StrUpperMissing(str) == str

StrUpper(str) == [i \in 1..Len(str) |-> Upper(str[i])]

(* sub in str *)
Contains(str, sub) ==
    \E i \in 1..(Len(str) - Len(sub) + 1) : SubSeq(str, i, i + Len(sub) - 1) = sub

WT01 == <<"W", "T", "0", "1">>
WT_01 == <<"W", "T", "-", "0", "1">>
WT02 == <<"W", "T", "0", "2">>
WT_02 == <<"W", "T", "-", "0", "2">>

(* 45-51 and 64-69: ' '.join(fields_to_check).upper() *)
Combined(info) ==
    StrUpper(Get(info, "name", <<>>) \o <<" ">> \o Get(info, "model", <<>>)
             \o <<" ">> \o Get(info, "product_name", <<>>))

(* 42-59 *)
detect_device_type(info) ==
    IF Contains(Combined(info), WT01) \/ Contains(Combined(info), WT_01)
    THEN "wt01"
    ELSE IF Contains(Combined(info), WT02) \/ Contains(Combined(info), WT_02)
    THEN "wt02"
    ELSE "wt02"

(* 62-70 *)
is_temperature_probe(info) ==
    \/ Contains(Combined(info), WT01)
    \/ Contains(Combined(info), WT_01)
    \/ Contains(Combined(info), WT02)
    \/ Contains(Combined(info), WT_02)

(***************************************************************************)
(* Registry entries the resolver is applied to: any name up to MaxNameLen  *)
(* characters, and a model and a product_name that are absent or given.    *)
(***************************************************************************)
Alphabet == {"w", "T", "-", "0", "1"}
Names == UNION {[1..n -> Alphabet] : n \in 0..MaxNameLen}
Absent == <<"absent">>
Models == {Absent, <<"w", "t", "-", "0", "1">>, <<"w", "t", "-", "0", "2">>}
Products == {Absent, <<"Z", "F", "X", "-", "W", "T", "0", "2">>}
Field(k, v) == IF v = Absent THEN NoDescriptor ELSE (k :> v)
Descriptor(n, m, p) == Field("name", n) @@ Field("model", m) @@ Field("product_name", p)

InitDetect ==
    /\ \E n \in Names, m \in Models, p \in Products :
          device_info = Descriptor(n, m, p)
    /\ detected = <<>>
    /\ is_probe = <<>>
    /\ DEVICE_TYPE = "wt02"
    /\ probe = <<254, 455>>
    /\ device_ip = None
    /\ InitCommon

(* 176: device_type = detect_device_type(device) *)
DetectDeviceType ==
    /\ Len(detected) < MaxCalls
    /\ detected' = Append(detected, detect_device_type(device_info))
    /\ UNCHANGED <<device_info, is_probe, DEVICE_TYPE, probe, polling_active,
                   device_ip, temperature_history, consecutive_errors, failures901,
                   scan_in_progress, pc, discLocals, pollLocals, ticks,
                   clientVars, tick_emits, rescan_emits, appended, queried, scan_exit>>

(* 104: if is_temperature_probe(device) *)
IsTemperatureProbe ==
    /\ Len(is_probe) < MaxCalls
    /\ is_probe' = Append(is_probe, is_temperature_probe(device_info))
    /\ UNCHANGED <<device_info, detected, DEVICE_TYPE, probe, polling_active,
                   device_ip, temperature_history, consecutive_errors, failures901,
                   scan_in_progress, pc, discLocals, pollLocals, ticks,
                   clientVars, tick_emits, rescan_emits, appended, queried, scan_exit>>

NextDetect ==
    \/ DetectDeviceType
    \/ IsTemperatureProbe

SpecDetect == InitDetect /\ [][NextDetect]_vars

(***************************************************************************)
(* The claims.                                                             *)
(***************************************************************************)
Min(a, b) == IF a < b THEN a ELSE b
Range(f) == {f[i] : i \in DOMAIN f}

(* the last k entries of the sequence q *)
LastOf(q, k) == SubSeq(q, Len(q) - k + 1, Len(q))

(* C1: in every reachable state the history buffer holds at most 900       *)
(* readings, whatever poll iterations, connects and rescans came before.   *)
C1_HistoryAtMost900 == Len(temperature_history) <= 900

(* C1 witness: the buffer is full and a further append has evicted, with   *)
(* a client connected and a rescan handled.                                *)
C1_Witness ==
    /\ Len(temperature_history) = 900
    /\ Len(appended) > 900
    /\ \E c \in Clients : cpc[c] = "connected"
    /\ \E r \in Rescans : pc[r] = "done"

(* C2: eviction is FIFO.  After n appends the buffer is the last           *)
(* min(n, 900) appended readings, oldest first; the snapshot a connect     *)
(* evaluates is that sequence; after 901 appends reading #1 is gone and    *)
(* the oldest entry is reading #2.                                         *)
C2_Retained == LastOf(appended, Min(Len(appended), 900))

C2_Step ==
    /\ temperature_history' = C2_Retained'
    /\ \A c \in Clients :
          (cpc[c] = "joined" /\ cpc'[c] = "snapshot") => snap'[c] = C2_Retained
    /\ Len(appended') = 901 =>
          /\ temperature_history'[1] = appended'[2]
          /\ appended'[1] \notin Range(temperature_history')

C2_FifoEviction == [][C2_Step]_vars

(* C2 witness: a connect has evaluated its snapshot after the 901st append *)
C2_Witness ==
    \E c \in Clients :
        /\ cpc[c] = "snapshot"
        /\ Len(appended) = 901
        /\ Len(snap[c]) = 900
        /\ snap[c][1] = appended[2]

(* C3: the first event a client receives is its history event: no          *)
(* temperature_update reaches it before, under every interleaving of       *)
(* handle_connect with the poll thread.                                    *)
C3_HistoryBeforeUpdates ==
    \A c \in Clients : first_event[c] # "temperature_update"

(* C4: the third connection-error status in a row clears device_ip; the    *)
(* counter is then reset to 0 and the poll thread enters                   *)
(* discover_device_ip, before it can reach its next status query.          *)
C4_Step ==
    /\ (/\ pc[POLL] = "gds_901_threshold"
        /\ failures901 = 3
        /\ pc'[POLL] # pc[POLL])
       => (device_ip' = None /\ pc'[POLL] = "gds_901_reset")
    /\ (pc[POLL] = "gds_901_reset" /\ pc'[POLL] # pc[POLL])
       => /\ consecutive_errors' = 0
          /\ pc'[POLL] = "disc_check"
          /\ caller'[POLL] = "gds293"
    /\ (pc[POLL] # "query" /\ pc'[POLL] = "query")
       => pc[POLL] \in {"gds_ip_check", "gds_after_discover"}

C4_ClearAfterThreeFailures == [][C4_Step]_vars

(* C4 witness: three connection errors in a row, the address just cleared  *)
C4_Witness ==
    /\ pc[POLL] = "gds_901_reset"
    /\ failures901 = 3
    /\ consecutive_errors = 3
    /\ device_ip = None

(* C5: a call of discover_device_ip that finds scan_in_progress true       *)
(* starts no scan and returns the current device_ip, set or not.           *)
C5_Step ==
    \A t \in Threads :
        /\ (pc[t] = "disc_check" /\ scan_in_progress /\ pc'[t] # pc[t])
           => pc'[t] = "disc_busy"
        /\ (pc[t] = "disc_busy" /\ pc'[t] # pc[t])
           => /\ ret'[t] = device_ip
              /\ pc'[t] \in {"gds_after_discover", "poll_status", "rescan_emit"}
              /\ scan_in_progress' = scan_in_progress
              /\ device_ip' = device_ip

C5_NoSecondScan == [][C5_Step]_vars

(* C5 witness: a call met a scan in flight and is returning an unset       *)
(* address while the other thread still scans.                             *)
C5_Witness ==
    \E t, u \in Threads :
        /\ pc[t] = "disc_busy"
        /\ pc[u] = "disc_scan"
        /\ scan_in_progress
        /\ device_ip = None

(* C6: a rescan handler that has finished has emitted exactly one event,   *)
(* a rescan_result (success with an address, or failure); before that it   *)
(* has emitted nothing, and it can always take its next step.              *)
C6_HandlerStep(r) ==
    \/ DiscCheck(r)
    \/ DiscBusyReturn(r)
    \/ DiscSet(r)
    \/ DiscScanFound(r)
    \/ DiscFoundReturn(r)
    \/ DiscScanNotFound(r)
    \/ RescanEmit(r)

C6_IsResult(e) ==
    /\ e.event = "rescan_result"
    /\ IF e.data.success
       THEN DOMAIN e.data = {"success", "ip"} /\ e.data.ip \in Addresses
       ELSE DOMAIN e.data = {"success", "error"}

C6_OneRescanResult ==
    \A r \in Rescans :
        /\ pc[r] = "done" =>
              Len(rescan_emits[r]) = 1 /\ C6_IsResult(rescan_emits[r][1])
        /\ pc[r] # "done" => rescan_emits[r] = <<>>
        /\ pc[r] \notin {"idle", "done"} => ENABLED C6_HandlerStep(r)

(* C6 witness: a rescan that met the poll thread's scan in flight was      *)
(* answered with a failure.                                                *)
C6_Witness ==
    \E r \in Rescans :
        /\ pc[r] = "done"
        /\ pc[POLL] = "disc_scan"
        /\ Len(rescan_emits[r]) = 1
        /\ ~rescan_emits[r][1].data.success

(* C7: for every raw pair and both profiles the reading recorded and       *)
(* published is temp_c = round(t/dt, 1), humidity = round(h/dh, 1),        *)
(* temp_f = round(temp_c * 9/5 + 32, 1), in tenths: 25 with dt = 1 gives   *)
(* 25.0 C and 77.0 F, 254 with dt = 10 gives 25.4 C and 77.7 F.            *)
C7_Nearest(a, b) ==
    LET q == a \div b
        r == a % b
    IN  IF 2 * r < b THEN q
        ELSE IF 2 * r > b THEN q + 1
        ELSE IF q % 2 = 0 THEN q ELSE q + 1

C7_Divisors == [wt01 |-> <<1, 10>>, wt02 |-> <<10, 10>>]

C7_Expected ==
    LET c == C7_Nearest(10 * probe[1], C7_Divisors[DEVICE_TYPE][1])
    IN  [temp_c |-> c,
         humidity |-> C7_Nearest(10 * probe[2], C7_Divisors[DEVICE_TYPE][2]),
         temp_f |-> C7_Nearest(18 * c + 3200, 10)]

C7_Matches(e) ==
    /\ e.temp_c = C7_Expected.temp_c
    /\ e.humidity = C7_Expected.humidity
    /\ e.temp_f = C7_Expected.temp_f
    /\ (DEVICE_TYPE = "wt01" /\ probe[1] = 25) => (e.temp_c = 250 /\ e.temp_f = 770)
    /\ (DEVICE_TYPE = "wt02" /\ probe[1] = 254) => (e.temp_c = 254 /\ e.temp_f = 777)

C7_ReadingConversion ==
    (pc[POLL] = "loop" /\ tick_emits # <<>>) =>
        /\ Has(tick_emits[1].data, "temp_c")
        /\ C7_Matches(tick_emits[1].data)
        /\ C7_Matches(temperature_history[Len(temperature_history)])

(* C7 witness: 254 with the wt02 profile recorded and published as 77.7 F  *)
C7_Witness ==
    /\ pc[POLL] = "loop"
    /\ DEVICE_TYPE = "wt02"
    /\ probe = <<254, 15>>
    /\ tick_emits # <<>>
    /\ tick_emits[1].data.temp_f = 777
    /\ temperature_history # <<>>
    /\ temperature_history[1].temp_c = 254
    /\ temperature_history[1].humidity = 15

(* C8: a connection gets one history event: no client receives a second   *)
(* one, also when another client connects.                                 *)
C8_OneHistoryPerConnection == \A c \in Clients : histories[c] <= 1

(* C9: every iteration of the poll loop publishes exactly one              *)
(* temperature_update, of one of the three shapes.                         *)
C9_Shapes ==
    {{"temp_f", "temp_c", "humidity", "timestamp"},
     {"scanning", "timestamp"},
     {"error", "timestamp"}}

C9_OneUpdatePerIteration ==
    /\ Len(tick_emits) <= 1
    /\ (ticks > 0 /\ pc[POLL] \in {"loop", "crashed"}) =>
          /\ Len(tick_emits) = 1
          /\ tick_emits[1].event = "temperature_update"
          /\ DOMAIN tick_emits[1].data \in C9_Shapes

(* C9 for the iterations that reach their sleep *)
C9_CompletedIterations ==
    /\ Len(tick_emits) <= 1
    /\ (ticks > 0 /\ pc[POLL] = "loop") =>
          /\ Len(tick_emits) = 1
          /\ tick_emits[1].event = "temperature_update"
          /\ DOMAIN tick_emits[1].data \in C9_Shapes

(* C10: detect_device_type returns wt01 exactly for the descriptors with   *)
(* a WT01 or WT-01 token, in any case, in name, model or product_name, and *)
(* wt02 for all others; every call on a descriptor returns the same; and   *)
(* is_temperature_probe is false only where no token of either family is   *)
(* present, which detect_device_type classifies by its default.            *)
C10_SameLetter(ch, up) ==
    \/ ch = up
    \/ ch = "w" /\ up = "W"
    \/ ch = "t" /\ up = "T"

C10_FieldHas(f, token) ==
    \E i \in 1..Len(f) :
        /\ i + Len(token) - 1 <= Len(f)
        /\ \A k \in 1..Len(token) : C10_SameLetter(f[i + k - 1], token[k])

C10_Has(info, tokens) ==
    \E k \in DOMAIN info : \E token \in tokens : C10_FieldHas(info[k], token)

C10_Family01 == {<<"W", "T", "0", "1">>, <<"W", "T", "-", "0", "1">>}
C10_Family02 == {<<"W", "T", "0", "2">>, <<"W", "T", "-", "0", "2">>}

C10_PureClassification ==
    /\ \A i \in DOMAIN detected :
          detected[i] = IF C10_Has(device_info, C10_Family01) THEN "wt01" ELSE "wt02"
    /\ \A i, j \in DOMAIN detected : detected[i] = detected[j]
    /\ \A i, j \in DOMAIN is_probe : is_probe[i] = is_probe[j]
    /\ \A i \in DOMAIN is_probe :
          ~is_probe[i] =>
             /\ ~C10_Has(device_info, C10_Family01 \cup C10_Family02)
             /\ \A j \in DOMAIN detected : detected[j] = "wt02"

(* C10 witness: a name wT01 beside a WT02 product resolved twice to wt01   *)
C10_Witness ==
    /\ Len(detected) = 2
    /\ Len(is_probe) = 2
    /\ Get(device_info, "name", <<>>) = <<"w", "T", "0", "1">>
    /\ Get(device_info, "product_name", <<>>) # <<>>
    /\ detected[2] = "wt01"
    /\ is_probe[2]

(* C11: at most one thread is in the scan body of discover_device_ip (the  *)
(* network scan and what follows it up to the return) at any time.         *)
C11_InScanBody(t) == pc[t] \in {"disc_scan", "disc_found"}

C11_OneScanBody == Cardinality({t \in Threads : C11_InScanBody(t)}) <= 1

(* C12: a call of discover_device_ip that set scan_in_progress leaves it   *)
(* false when it returns, by each of its exits: device matched, no device  *)
(* matched, exception raised by the scan.                                  *)
C12_Step ==
    \A t \in Threads :
        (C11_InScanBody(t) /\ ~C11_InScanBody(t)') =>
            /\ ~scan_in_progress'
            /\ scan_exit'[t] \in {"found", "not found", "exception"}
            /\ pc'[t] \in {"gds_after_discover", "poll_status", "rescan_emit"}

C12_FlagClearedOnExit == [][C12_Step]_vars

(* C12 witness: the scan of a rescan raised, the call has returned to the  *)
(* handler and the flag is down                                            *)
C12_Witness ==
    \E r \in Rescans :
        /\ pc[r] = "rescan_emit"
        /\ scan_exit[r] = "exception"
        /\ ret[r] = None
        /\ ~scan_in_progress

(* C13: while polling_active holds the poll thread always has a next step: *)
(* whatever a tick met, it emits a status and comes back to the loop.      *)
C13_PollThreadStep ==
    \/ PollLoop(MaxTicks)
    \/ GdsScanCheck
    \/ GdsIpCheck
    \/ GdsAfterDiscover
    \/ Query(AllOutcomes(probe))
    \/ Gds901Inc
    \/ Gds901Threshold
    \/ Gds901Reset
    \/ ExcInc
    \/ ExcThreshold
    \/ ExcReset
    \/ EmitScanning
    \/ ComputeReading
    \/ AppendReading
    \/ EmitReading
    \/ EmitError
    \/ DiscCheck(POLL)
    \/ DiscBusyReturn(POLL)
    \/ DiscSet(POLL)
    \/ DiscScanFound(POLL)
    \/ DiscFoundReturn(POLL)
    \/ DiscScanNotFound(POLL)
    \/ DiscScanException(POLL)

C13_LoopNeverTerminates ==
    (polling_active /\ ticks < MaxTicks) => ENABLED C13_PollThreadStep

(* C14: a status query that failed, by an error status of any code or by   *)
(* an exception, has raised consecutive_errors by one; only reaching the   *)
(* threshold puts the counter back to 0.                                   *)
C14_QueryFailed == query_address # NoQuery /\ Has(status, "Error")

C14_FailedQueryCounts ==
    /\ pc[POLL] \in {"gds_901_threshold", "exc_threshold"} =>
          consecutive_errors = errors_before + 1
    /\ (pc[POLL] = "poll_status" /\ C14_QueryFailed) =>
          consecutive_errors =
              IF errors_before + 1 >= 3 THEN 0 ELSE errors_before + 1

(* C15: when get_device_status returns a status with data points,          *)
(* consecutive_errors is 0, whatever it was when the query was issued.     *)
C15_SuccessResets ==
    (pc[POLL] = "poll_status" /\ Has(status, "dps")) => consecutive_errors = 0

(* C15 witness: a query issued after two failures has succeeded *)
C15_Witness ==
    /\ pc[POLL] = "poll_status"
    /\ Has(status, "dps")
    /\ errors_before = 2
    /\ consecutive_errors = 0

(* C16 as stated: a step of the poll thread clears device_ip only when the *)
(* status in hand is a connection-error status and consecutive_errors has  *)
(* reached 3.                                                              *)
C16_PollClears ==
    /\ pc'[POLL] # pc[POLL]
    /\ device_ip # None
    /\ device_ip' = None

C16_OnlyConnectionErrorClears ==
    [][C16_PollClears => (IsConnectionError(status) /\ consecutive_errors >= 3)]_vars

(* C16 amended: a step of the poll thread clears device_ip only when the   *)
(* query of this iteration ended in a connection-error status or in an     *)
(* exception and consecutive_errors has reached 3; with an error status of *)
(* another code in hand, or a count below 3, it leaves device_ip alone.    *)
C16_AmendedStep ==
    /\ C16_PollClears =>
          /\ query_address # NoQuery
          /\ IsConnectionError(status) \/ pc[POLL] = "exc_threshold"
          /\ consecutive_errors >= 3
    /\ (/\ pc'[POLL] # pc[POLL]
        /\ \/ Has(status, "Error") /\ ~IsConnectionError(status)
           \/ consecutive_errors < 3)
       => (device_ip' = device_ip \/ device_ip' # None)

C16_ClearsAtThresholdOnly == [][C16_AmendedStep]_vars

(* C16 witness: the third exception in a row has cleared the address *)
C16_Witness ==
    /\ pc[POLL] = "exc_reset"
    /\ errors_before = 2
    /\ consecutive_errors = 3
    /\ query_address # None
    /\ device_ip = None

(* C17: the poll loop does not stay on a dead address: when every query    *)
(* fails and no rescan arrives, the cached address has been cleared (and,  *)
(* the scans finding nothing, is still unset) after DeadTicks iterations.  *)
C17_DeadAddressDropped ==
    (pc[POLL] = "loop" /\ ticks = DeadTicks) => device_ip = None

(* C18: a tick that finds scan_in_progress set at the test of              *)
(* get_device_status emits one temperature_update with scanning: true and  *)
(* goes to sleep: it issues no query, calls no discover_device_ip, appends *)
(* nothing and leaves consecutive_errors, device_ip and the flag alone.    *)
C18_PollStep == pc'[POLL] # pc[POLL]

C18_Frame ==
    /\ device_ip' = device_ip
    /\ consecutive_errors' = consecutive_errors
    /\ scan_in_progress' = scan_in_progress
    /\ temperature_history' = temperature_history
    /\ appended' = appended

C18_Step ==
    /\ (pc[POLL] = "gds_scan_check" /\ scan_in_progress /\ C18_PollStep) =>
          /\ pc'[POLL] = "poll_status"
          /\ status' = [scanning |-> TRUE]
          /\ C18_Frame
    /\ (pc[POLL] = "poll_status" /\ Get(status, "scanning", FALSE) /\ C18_PollStep) =>
          /\ pc'[POLL] = "loop"
          /\ tick_emits' = <<[event |-> "temperature_update",
                              data |-> [scanning |-> TRUE, timestamp |-> ticks]]>>
          /\ query_address = NoQuery
          /\ scan_exit[POLL] = "none"
          /\ C18_Frame

C18_ScanningTick == [][C18_Step]_vars

(* C18 witness: the tick has emitted scanning while a rescan still scans *)
C18_Witness ==
    /\ pc[POLL] = "loop"
    /\ tick_emits # <<>>
    /\ Has(tick_emits[1].data, "scanning")
    /\ scan_in_progress
    /\ \E r \in Rescans : pc[r] = "disc_scan"

(* C19: a tick that finds no address calls discover_device_ip; if the      *)
(* address is still unset after the call it emits the error 'Device not    *)
(* found on network', issues no query, appends nothing and leaves          *)
(* consecutive_errors alone.                                               *)
C19_NotFound == [Error |-> "Device not found on network"]

C19_Frame ==
    /\ consecutive_errors' = consecutive_errors
    /\ temperature_history' = temperature_history
    /\ appended' = appended

C19_Step ==
    /\ (pc[POLL] = "gds_ip_check" /\ device_ip = None /\ C18_PollStep) =>
          /\ pc'[POLL] = "disc_check"
          /\ caller'[POLL] = "gds272"
          /\ C19_Frame
    /\ (caller[POLL] = "gds272" /\ C18_PollStep) =>
          /\ pc'[POLL] \in {"disc_busy", "disc_set", "disc_scan", "disc_found",
                           "gds_after_discover"}
          /\ C19_Frame
    /\ (pc[POLL] = "gds_after_discover" /\ device_ip = None /\ C18_PollStep) =>
          /\ pc'[POLL] = "poll_status"
          /\ status' = C19_NotFound
          /\ C19_Frame
    /\ (pc[POLL] = "poll_status" /\ status = C19_NotFound /\ C18_PollStep) =>
          /\ pc'[POLL] = "loop"
          /\ tick_emits' = <<[event |-> "temperature_update",
                              data |-> [error |-> "Device not found on network",
                                        timestamp |-> ticks]]>>
          /\ query_address = NoQuery
          /\ C19_Frame

C19_NotFoundTick == [][C19_Step]_vars

(* C19 witness: a tick after a counted failure found no device and has     *)
(* emitted the error, the counter still at its value                       *)
C19_Witness ==
    /\ pc[POLL] = "loop"
    /\ tick_emits # <<>>
    /\ Has(tick_emits[1].data, "error")
    /\ tick_emits[1].data.error = "Device not found on network"
    /\ device_ip = None
    /\ consecutive_errors > 0

(* C20: the history changes in a tick exactly when the tick publishes a    *)
(* reading: that tick appends one entry, which carries the published       *)
(* temp_f, temp_c and humidity; a tick that publishes an error or scanning *)
(* status, or nothing, appends none.                                       *)
C20_ThisTick == {i \in 1..Len(appended) : appended[i].time = ticks}

C20_PublishedReading == tick_emits # <<>> /\ Has(tick_emits[1].data, "temp_c")

C20_SameValues(entry, data) ==
    /\ entry.temp_f = data.temp_f
    /\ entry.temp_c = data.temp_c
    /\ entry.humidity = data.humidity

C20_HistoryIffReading ==
    /\ \A i, j \in 1..Len(appended) : i < j => appended[i].time < appended[j].time
    /\ temperature_history = appended
    /\ (pc[POLL] \in {"loop", "crashed"} /\ ticks > 0) =>
          IF C20_PublishedReading
          THEN /\ C20_ThisTick = {Len(appended)}
               /\ C20_SameValues(appended[Len(appended)], tick_emits[1].data)
          ELSE C20_ThisTick = {}

(* C20 witness: three ticks, the second published an error, the first and  *)
(* the third a reading each                                                *)
C20_Witness ==
    /\ pc[POLL] = "loop"
    /\ ticks = 3
    /\ C20_PublishedReading
    /\ Len(temperature_history) = 2
    /\ temperature_history[1].time = 1
    /\ temperature_history[2].time = 3

(* C21: a reading is recorded only from data points the device reported:   *)
(* the status a reading is computed from holds both data point 101 and     *)
(* data point 102.                                                         *)
C21_ReadingNeedsDataPoints ==
    pc[POLL] \in {"append", "emit_reading"} =>
        {"101", "102"} \subseteq DOMAIN status["dps"]

(* C22: under every interleaving with the rescan handler, the status query *)
(* is issued with a set address.                                           *)
C22_QueryHasAddress == query_address # None

(* C23: consecutive_errors is never negative and never above 3, and it is  *)
(* at most 2 once get_device_status has returned: a count that reaches the *)
(* threshold is put back to 0 within the same call.                        *)
C23_InCall ==
    pc[POLL] \in {"gds_scan_check", "gds_ip_check", "gds_after_discover", "query",
                  "gds_901_inc", "gds_901_threshold", "gds_901_reset",
                  "exc_inc", "exc_threshold", "exc_reset"}
    \/ caller[POLL] # "none"

C23_CounterBounded ==
    /\ consecutive_errors \in 0..3
    /\ ~C23_InCall => consecutive_errors <= 2
    /\ (pc[POLL] = "poll_status" /\ C14_QueryFailed /\ errors_before = 2) =>
          consecutive_errors = 0

(* C23 witness: the third connection error in a row reached the threshold  *)
(* and get_device_status has returned with the counter back at 0           *)
C23_Witness ==
    /\ pc[POLL] = "poll_status"
    /\ IsConnectionError(status)
    /\ errors_before = 2
    /\ consecutive_errors = 0
    /\ device_ip = None

====
